---- MODULE Spec2Model ----
(***************************************************************************)
(* A model of torch/ao/quantization/quantizer/utils.py:                    *)
(*   - the two annotation helpers that get-or-create a node's              *)
(*     QuantizationAnnotation in node.meta and set one field of it;        *)
(*   - the predicate _node_only_used_for_sym_size over a node's users;     *)
(*   - the eight functools.lru_cache(None) accessors around                *)
(*     _generate_pattern_matcher_helper.                                   *)
(* The three parts share no state, so each has its own specification:     *)
(* Spec (annotations), SymSpec (predicate), CacheSpec (accessors).         *)
(* LruSpec is CacheSpec with, besides, the two functions that              *)
(* functools.lru_cache puts on every function it wraps, cache_clear and    *)
(* __wrapped__, which no code of the module calls.                         *)
(***************************************************************************)
EXTENDS Integers, FiniteSets, Sequences, TLC

\* ---------------------------------------------------------------- bounds
\* Graph nodes that can be annotated or named as an input node.
NumNodes == 2
\* Distinct non-None quantization specs a caller may pass.
NumQspecs == 1
\* Annotation calls in one behaviour.
MaxCalls == 2
\* Nodes of the graph the sym-size predicate is evaluated on.
NumGraphNodes == 3
\* Calls of an accessor, or of a function on it, in one behaviour.
MaxOps == 4

VARIABLES
    \* annotations
    metaOf,     \* node -> the name of the dict object that is node.meta
    meta,       \* name -> meta dict object: the key to the record's name
    recs,       \* name -> QuantizationAnnotation object
    dicts,      \* name -> input_qspec_map dict object
    before,     \* meta, recs and dicts before the latest annotation call
    last,       \* the latest annotation call
    prev,       \* the annotation call before it
    lastOut,    \* node -> qspec of the latest _annotate_output_qspec on it
    calls,      \* annotation calls made
    \* sym-size predicate
    users,      \* node -> node.users
    symsize,    \* the nodes _is_sym_size_node holds of
    res,        \* the latest call of the predicate and its result
    \* cached pattern matchers
    cache,      \* accessor -> its lru_cache dict
    cacheBefore,\* cache before the latest accessor call
    builds,     \* accessor -> runs of _generate_pattern_matcher_helper for it
    fails,      \* accessor -> runs of the helper that raised
    ops,        \* calls made (of an accessor or of a function on it)
    returned,   \* accessor -> the set of objects its calls returned
    outcome     \* the latest accessor call and how it ended

annotVars == <<metaOf, meta, recs, dicts, before, last, prev, lastOut, calls>>
symVars == <<users, symsize, res>>
cacheVars ==
    <<cache, cacheBefore, builds, fails, ops, returned, outcome>>
vars == <<annotVars, symVars, cacheVars>>

\* ------------------------------------------------------------ Python dicts
\* Python None, where the value is a qspec.
PyNone == 0
EmptyDict == [k \in {} |-> 0]
\* dict.get(k, default)
DictGet(d, k, default) == IF k \in DOMAIN d THEN d[k] ELSE default
\* d[k] = v
DictSet(d, k, v) == [x \in DOMAIN d \cup {k} |-> IF x = k THEN v ELSE d[x]]

\* ============================================================ annotations
\* Meta dicts, records and input_qspec_map dicts are objects: a node holds
\* a reference to its meta dict, the meta dict a reference to the record,
\* the record a reference to its input_qspec_map dict, and the helpers
\* assign to the object they fetched. Two nodes may hold one meta dict (meta
\* is a plain attribute of a node), two meta dicts one record, and two
\* records one dict.
Nodes == 1..NumNodes
\* What a caller may pass as qspec: None or a quantization spec.
Qspecs == {PyNone} \cup (1..NumQspecs)
QA == "quantization_annotation"
\* Names of objects. A meta dict is named after the first node that holds
\* it. A record made by a call is named after the meta dict it is stored
\* in, and a dict after the record it is assigned to; the records and dicts
\* of the initial state are named after the first meta dict, or record,
\* that holds them. A meta dict's name is free for a record as long as the
\* meta dict holds no record, and a record's name is free for a dict as
\* long as the record's input_qspec_map is None.
ObjIds == Nodes

\* QuantizationAnnotation(): a new record with its defaults; its
\* input_qspec_map is a new empty dict, the object named id.
QuantizationAnnotation(id) ==
    [input_qspec_map |-> id,
     output_qspec |-> PyNone,
     allow_implicit_sharing |-> TRUE,
     _annotated |-> FALSE]

\* A mutant of GetOrCreate: the stored record is ignored.
GetOrCreateAlwaysNew(m, id) ==
    [ref |-> id,
     recs |-> DictSet(recs, id, QuantizationAnnotation(id)),
     dicts |-> DictSet(dicts, id, EmptyDict)]
\* node.meta.get("quantization_annotation", QuantizationAnnotation()): the
\* stored record, or else a new one, named id. (The default built when the
\* key is present is dropped at once and left out.) The result is the
\* reference and the heap.
GetOrCreate(m, id) ==
    IF QA \in DOMAIN m
    THEN [ref |-> m[QA], recs |-> recs, dicts |-> dicts]
    ELSE [ref |-> id,
          recs |-> DictSet(recs, id, QuantizationAnnotation(id)),
          dicts |-> DictSet(dicts, id, EmptyDict)]

\* A mutant of InputAnnotated: the record gets a new dict on every call.
InputAnnotatedReset(g, input_node, qspec) ==
    [ref |-> g.ref,
     recs |-> [g.recs EXCEPT ![g.ref].input_qspec_map = g.ref],
     dicts |-> DictSet(g.dicts, g.ref, DictSet(EmptyDict, input_node, qspec))]
\* Lines 27-29: when the record's map is None the record gets a new dict
\* (named after the record); then one entry of the record's dict is set, in
\* place.
InputAnnotated(g, input_node, qspec) ==
    LET isNone == g.recs[g.ref].input_qspec_map = PyNone
        d == IF isNone THEN g.ref ELSE g.recs[g.ref].input_qspec_map
        recs1 == IF isNone
                 THEN [g.recs EXCEPT ![g.ref].input_qspec_map = d]
                 ELSE g.recs
        dicts1 == IF isNone THEN DictSet(g.dicts, d, EmptyDict) ELSE g.dicts
    IN [ref |-> g.ref,
        recs |-> recs1,
        dicts |-> [dicts1 EXCEPT ![d] = DictSet(@, input_node, qspec)]]

\* A mutant of OutputAnnotated: an output spec already set is kept.
OutputAnnotatedKeepFirst(g, qspec) ==
    IF g.recs[g.ref].output_qspec = PyNone
    THEN [g EXCEPT !.recs[g.ref].output_qspec = qspec]
    ELSE g
\* Line 37: the field of the fetched record is assigned, in place.
OutputAnnotated(g, qspec) == [g EXCEPT !.recs[g.ref].output_qspec = qspec]

NoCall == [op |-> "none", node |-> 0, input_node |-> 0, qspec |-> PyNone]
Never == PyNone - 1

_annotate_input_qspec_map(node, input_node, qspec) ==
    /\ calls < MaxCalls
    /\ LET g == InputAnnotated(GetOrCreate(meta[metaOf[node]], metaOf[node]),
                               input_node, qspec)
       IN /\ meta' = [meta EXCEPT ![metaOf[node]] = DictSet(@, QA, g.ref)]
          /\ recs' = g.recs
          /\ dicts' = g.dicts
    /\ before' = [meta |-> meta, recs |-> recs, dicts |-> dicts]
    /\ prev' = last
    /\ last' = [op |-> "input", node |-> node, input_node |-> input_node,
                qspec |-> qspec]
    /\ calls' = calls + 1
    /\ UNCHANGED <<metaOf, lastOut, symVars, cacheVars>>

_annotate_output_qspec(node, qspec) ==
    /\ calls < MaxCalls
    /\ LET g == OutputAnnotated(GetOrCreate(meta[metaOf[node]], metaOf[node]),
                                qspec)
       IN /\ meta' = [meta EXCEPT ![metaOf[node]] = DictSet(@, QA, g.ref)]
          /\ recs' = g.recs
          /\ dicts' = g.dicts
    /\ before' = [meta |-> meta, recs |-> recs, dicts |-> dicts]
    /\ prev' = last
    /\ last' = [op |-> "output", node |-> node, input_node |-> 0, qspec |-> qspec]
    /\ lastOut' = [lastOut EXCEPT ![node] = qspec]
    /\ calls' = calls + 1
    /\ UNCHANGED <<metaOf, symVars, cacheVars>>

\* Which meta dict each node holds: its own, or the one of a node before
\* it (a caller assigned n2.meta = n1.meta).
InitialMetaOf ==
    {f \in [Nodes -> ObjIds] :
        \A n \in Nodes : f[n] <= n /\ f[f[n]] = f[n]}
\* Which record each of the meta dicts M holds before the first call: none
\* (0) or a record, named after the first meta dict that holds it.
InitialRecordOf(M) ==
    {f \in [M -> {0} \cup M] :
        \A n \in M : f[n] # 0 => (f[n] <= n /\ f[f[n]] = f[n])}
\* Which dict each of the records R holds: None (0) or a dict, named after
\* the first record that holds it.
InitialDictOf(R) ==
    {f \in [R -> {0} \cup R] :
        \A r \in R : f[r] # 0 => (f[r] <= r /\ f[f[r]] = f[r])}

AnnotIdle ==
    /\ metaOf = [n \in Nodes |-> n]
    /\ meta = [n \in Nodes |-> EmptyDict]
    /\ recs = EmptyDict
    /\ dicts = EmptyDict
    /\ before = [meta |-> meta, recs |-> recs, dicts |-> dicts]
    /\ last = NoCall
    /\ prev = NoCall
    /\ lastOut = [n \in Nodes |-> Never]
    /\ calls = 0

SymIdle ==
    /\ users = <<>>
    /\ symsize = {}
    /\ res = <<>>

CacheIdle ==
    /\ cache = <<>>
    /\ cacheBefore = <<>>
    /\ builds = <<>>
    /\ fails = <<>>
    /\ ops = 0
    /\ returned = <<>>
    /\ outcome = <<>>

\* The nodes as the helpers may find them: a node's meta without the key or
\* with a record a caller stored, the record's input_qspec_map None (the
\* case line 27 tests for) or a dict, still empty; the same meta dict may be
\* held by several nodes, the same record stored in several meta dicts and
\* the same dict in several records.
Init ==
    /\ \E mOf \in InitialMetaOf :
           LET M == {mOf[n] : n \in Nodes}
           IN \E recOf \in InitialRecordOf(M) :
                  LET R == {recOf[n] : n \in M} \ {0}
                  IN \E dictOf \in InitialDictOf(R) :
                         /\ metaOf = mOf
                         /\ meta = [n \in M |->
                                       IF recOf[n] = 0 THEN EmptyDict
                                       ELSE DictSet(EmptyDict, QA, recOf[n])]
                         /\ recs = [r \in R |->
                                       [QuantizationAnnotation(dictOf[r])
                                            EXCEPT !.input_qspec_map = dictOf[r]]]
                         /\ dicts = [d \in {dictOf[r] : r \in R} \ {0} |->
                                        EmptyDict]
    /\ before = [meta |-> meta, recs |-> recs, dicts |-> dicts]
    /\ last = NoCall
    /\ prev = NoCall
    /\ lastOut = [n \in Nodes |-> Never]
    /\ calls = 0
    /\ SymIdle
    /\ CacheIdle

Next ==
    \/ \E node \in Nodes, input_node \in Nodes, qspec \in Qspecs :
           _annotate_input_qspec_map(node, input_node, qspec)
    \/ \E node \in Nodes, qspec \in Qspecs : _annotate_output_qspec(node, qspec)

Spec == Init /\ [][Next]_vars

\* ------------------------------------------------- claims on annotations
\* The heap now.
Now == [meta |-> meta, recs |-> recs, dicts |-> dicts]
\* The record name node n's meta dict holds in heap h, when it holds one.
RecordOf(h, n) == h.meta[metaOf[n]][QA]
HasAnn(h, n) == QA \in DOMAIN h.meta[metaOf[n]]
\* The Optional[dict] a record holds, by value: None, or the dict's entries.
NoneMap == [none |-> TRUE, items |-> EmptyDict]
SomeMap(d) == [none |-> FALSE, items |-> d]
\* A record by value.
RecordValue(h, r) ==
    [input_qspec_map |->
         IF h.recs[r].input_qspec_map = PyNone THEN NoneMap
         ELSE SomeMap(h.dicts[h.recs[r].input_qspec_map]),
     output_qspec |-> h.recs[r].output_qspec,
     allow_implicit_sharing |-> h.recs[r].allow_implicit_sharing,
     _annotated |-> h.recs[r]._annotated]
\* The defaults of a new record, by value.
DefaultValue ==
    [input_qspec_map |-> SomeMap(EmptyDict),
     output_qspec |-> PyNone,
     allow_implicit_sharing |-> TRUE,
     _annotated |-> FALSE]
\* Node n's annotation by value; the defaults of a new record when its meta
\* holds none.
Ann(h, n) ==
    IF HasAnn(h, n) THEN RecordValue(h, RecordOf(h, n)) ELSE DefaultValue
\* Node n's meta by value.
MetaValue(h, n) ==
    IF HasAnn(h, n) THEN DictSet(EmptyDict, QA, Ann(h, n)) ELSE EmptyDict
\* The entries of an Optional[dict]: none when it is None.
Entries(map) == IF map.none THEN EmptyDict ELSE map.items
\* The meta of n and of m are the same dict object.
SameMeta(n, m) == metaOf[n] = metaOf[m]
\* In heap h the meta of n and of m hold the same record object.
SameRecord(h, n, m) ==
    /\ HasAnn(h, n)
    /\ HasAnn(h, m)
    /\ RecordOf(h, n) = RecordOf(h, m)
\* In heap h the records of n and of m hold the same dict object.
SameDict(h, n, m) ==
    /\ HasAnn(h, n)
    /\ HasAnn(h, m)
    /\ h.recs[RecordOf(h, n)].input_qspec_map # PyNone
    /\ h.recs[RecordOf(h, n)].input_qspec_map
           = h.recs[RecordOf(h, m)].input_qspec_map

\* C1: after _annotate_input_qspec_map(n, a, q1) followed by
\* _annotate_input_qspec_map(n, b, q2) with a # b, n's input_qspec_map holds
\* both entries, a -> q1 and b -> q2.
C1_AccumulatesBothEntries ==
    (/\ prev.op = "input"
     /\ last.op = "input"
     /\ prev.node = last.node
     /\ prev.input_node # last.input_node)
    => /\ HasAnn(Now, last.node)
       /\ LET map == Ann(Now, last.node).input_qspec_map
          IN /\ ~map.none
             /\ prev.input_node \in DOMAIN map.items
             /\ map.items[prev.input_node] = prev.qspec
             /\ last.input_node \in DOMAIN map.items
             /\ map.items[last.input_node] = last.qspec

\* Two input calls on one node, for distinct input nodes and distinct specs.
C1_Witness ==
    /\ prev.op = "input"
    /\ last.op = "input"
    /\ prev.node = last.node
    /\ prev.input_node # last.input_node
    /\ prev.qspec # last.qspec

\* C2: after a sequence of annotation calls on a node n, n's output_qspec is
\* the qspec of the most recent _annotate_output_qspec(n, .) call. Calls on
\* other nodes may come in between; the one case left out is an output call
\* on another node whose meta holds the very record of n (its meta the same
\* dict object as n's, or another dict holding the same record), which is
\* no call on n and assigns to n's record all the same.
C2_OutputIsMostRecent ==
    \A n \in Nodes :
        (/\ lastOut[n] # Never
         /\ \A m \in Nodes \ {n} :
                lastOut[m] # Never => ~SameRecord(Now, n, m))
        => /\ HasAnn(Now, n)
           /\ Ann(Now, n).output_qspec = lastOut[n]

\* An output call that overwrites the different spec the output call before
\* it left on the same node.
C2_Witness ==
    /\ last.op = "output"
    /\ prev.op = "output"
    /\ prev.node = last.node
    /\ Ann(before, last.node).output_qspec \notin {PyNone, last.qspec}
    /\ lastOut[last.node] = last.qspec

\* What C8 says of the node the latest call was made on: its meta holds the
\* record; the input call changed only the entry for its input node, the
\* output call only output_qspec.
OwnNodeFrame ==
    LET n == last.node
        old == Ann(before, n)
        new == Ann(Now, n)
    IN /\ HasAnn(Now, n)
       /\ DOMAIN meta[metaOf[n]] = DOMAIN before.meta[metaOf[n]] \cup {QA}
       /\ new.allow_implicit_sharing = old.allow_implicit_sharing
       /\ new._annotated = old._annotated
       /\ last.op = "input" =>
              /\ new.output_qspec = old.output_qspec
              /\ ~new.input_qspec_map.none
              /\ DOMAIN Entries(new.input_qspec_map)
                     = DOMAIN Entries(old.input_qspec_map) \cup {last.input_node}
              /\ Entries(new.input_qspec_map)[last.input_node] = last.qspec
              /\ \A k \in DOMAIN Entries(old.input_qspec_map) \ {last.input_node} :
                     Entries(new.input_qspec_map)[k]
                         = Entries(old.input_qspec_map)[k]
       /\ last.op = "output" =>
              /\ new.output_qspec = last.qspec
              /\ new.input_qspec_map = old.input_qspec_map

\* C8 as stated: besides, the call changes the annotation of no other node.
C8_AsStated ==
    last.op # "none" =>
        /\ OwnNodeFrame
        /\ \A m \in Nodes \ {last.node} : MetaValue(Now, m) = MetaValue(before, m)

\* C8 amended: the call changes the annotation of no other node, except a
\* node whose meta is the same dict object or held the same record object,
\* whose annotation is that of the node the call was made on, and, for the
\* input call, a node whose record held the same dict object, which gets
\* the same entry and no other change.
C8_FrameEffect ==
    last.op # "none" =>
        /\ OwnNodeFrame
        /\ \A m \in Nodes \ {last.node} :
               LET shared == \/ SameMeta(last.node, m)
                             \/ SameRecord(before, last.node, m)
                   sharedDict == /\ last.op = "input"
                                 /\ SameDict(before, last.node, m)
               IN /\ shared => MetaValue(Now, m) = MetaValue(Now, last.node)
                  /\ (~shared /\ ~sharedDict)
                     => MetaValue(Now, m) = MetaValue(before, m)
                  /\ (~shared /\ sharedDict)
                     => /\ Ann(Now, m).input_qspec_map
                               = Ann(Now, last.node).input_qspec_map
                        /\ Ann(Now, m).output_qspec
                               = Ann(before, m).output_qspec

\* An output call on a node whose record already held an input entry; the
\* record is stored in the meta of another node too, a different dict
\* object, and that node's annotation changed with it.
C8_Witness ==
    /\ last.op = "output"
    /\ HasAnn(before, last.node)
    /\ DOMAIN Entries(Ann(before, last.node).input_qspec_map) # {}
    /\ \E m \in Nodes \ {last.node} :
           /\ ~SameMeta(last.node, m)
           /\ SameRecord(before, last.node, m)
           /\ MetaValue(Now, m) # MetaValue(before, m)

\* ===================================================== sym-size predicate
GraphNodes == 1..NumGraphNodes

\* _is_sym_size_node(node), of torch.ao.quantization.pt2e.utils: whether the
\* node is a size-extraction node.
_is_sym_size_node(node) == node \in symsize

\* node.users in the order a loop over it visits them.
RECURSIVE SetToSeq(_)
SetToSeq(S) ==
    IF S = {} THEN <<>>
    ELSE LET m == CHOOSE x \in S : \A y \in S : x <= y
         IN <<m>> \o SetToSeq(S \ {m})

\* user in partition_nodes, partition_nodes a list.
InList(x, list) == \E i \in 1..Len(list) : list[i] = x

\* all(... for user in node.users) of lines 60-63: false at the first user
\* whose term is false.
RECURSIVE AllUsers(_, _)
AllUsers(us, partition_nodes) ==
    IF us = <<>> THEN TRUE
    ELSE IF ~((~InList(Head(us), partition_nodes)) \/ _is_sym_size_node(Head(us)))
         THEN FALSE
         ELSE AllUsers(Tail(us), partition_nodes)

\* A mutant: the early return of lines 57-58 is missing.
NodeOnlyUsedNoEarlyReturn(node, partition_nodes) ==
    AllUsers(SetToSeq(users[node]), partition_nodes)
\* A mutant: a user passes only when it is outside the partition.
NodeOnlyUsedOutsideOnly(node, partition_nodes) ==
    IF _is_sym_size_node(node) THEN TRUE
    ELSE \A user \in users[node] : ~InList(user, partition_nodes)
_node_only_used_for_sym_size(node, partition_nodes) ==
    IF _is_sym_size_node(node) THEN TRUE
    ELSE AllUsers(SetToSeq(users[node]), partition_nodes)

\* The lists without repeats over the graph's nodes.
PartitionLists ==
    {l \in UNION {[1..k -> GraphNodes] : k \in 0..NumGraphNodes} :
        \A i, j \in 1..Len(l) : i # j => l[i] # l[j]}

NoResult == [node |-> 0, partition_nodes |-> <<>>, result |-> FALSE]

\* The predicate reads the graph and changes nothing: a behaviour draws a
\* graph and evaluates it once.
CallNodeOnlyUsedForSymSize(node, partition_nodes) ==
    /\ res = NoResult
    /\ res' = [node |-> node, partition_nodes |-> partition_nodes,
               result |-> _node_only_used_for_sym_size(node, partition_nodes)]
    /\ UNCHANGED <<users, symsize, annotVars, cacheVars>>

\* A traced graph lists its nodes in topological order: a node's users come
\* after it.
SymInit ==
    /\ users \in {u \in [GraphNodes -> SUBSET GraphNodes] :
                     \A n \in GraphNodes : \A m \in u[n] : m > n}
    /\ symsize \in SUBSET GraphNodes
    /\ res = NoResult
    /\ AnnotIdle
    /\ CacheIdle

SymNext ==
    \E node \in GraphNodes, partition_nodes \in PartitionLists :
        CallNodeOnlyUsedForSymSize(node, partition_nodes)

SymSpec == SymInit /\ [][SymNext]_vars

\* ----------------------------------------------- claims on the predicate
\* A user of the latest call's node that lies in the partition and is no
\* size-extraction node.
OffendingUser(u) ==
    /\ u \in users[res.node]
    /\ InList(u, res.partition_nodes)
    /\ u \notin symsize

\* C3 as stated: the result is true iff every user of the node is outside
\* partition_nodes or is a size-extraction node, and nothing else makes it
\* true.
C3_AsStated ==
    res.node # 0 => (res.result <=> ~\E u \in GraphNodes : OffendingUser(u))

\* C3 amended: the result is true iff the node is itself a size-extraction
\* node, or every user of it is outside partition_nodes or is a
\* size-extraction node.
C3_IffSymOrAllUsers ==
    res.node # 0 =>
        (res.result <=>
            (res.node \in symsize \/ ~\E u \in GraphNodes : OffendingUser(u)))

\* A true result for a node that is no size-extraction node and has a
\* size-extraction user inside the partition and another user outside it.
C3_Witness ==
    /\ res.node # 0
    /\ res.node \notin symsize
    /\ res.result
    /\ \E u \in users[res.node] :
           InList(u, res.partition_nodes) /\ u \in symsize
    /\ \E u \in users[res.node] : ~InList(u, res.partition_nodes)

\* C9: a node that is itself a size-extraction node yields true, also when a
\* user of it lies in partition_nodes and is no size-extraction node.
C9_SymSizeNodeIsTrue ==
    (res.node # 0 /\ res.node \in symsize) => res.result

\* The call on a size-extraction node with such a user.
C9_Witness ==
    /\ res.node # 0
    /\ res.node \in symsize
    /\ \E u \in GraphNodes : OffendingUser(u)
    /\ res.result

\* ================================================ cached pattern matchers
\* What the external framework does in one run of the helper: every step
\* succeeds, or one of them raises.
Stages == {"get_aten_graph_module", "eliminate_dead_code", "recompile",
           "SubgraphMatcherWithNameNodeMap"}
NoError == "none"
FrameworkRuns == {NoError} \cup Stages

\* _get_conv_unary_pattern(conv_fn, has_bn, unary_fn): the closure, which
\* holds its three arguments.
_get_conv_unary_pattern(conv_fn, has_bn, unary_fn) ==
    [conv_fn |-> conv_fn, has_bn |-> has_bn, unary_fn |-> unary_fn]

NoPattern == _get_conv_unary_pattern("none", FALSE, "none")
\* No object: what a call that raised returned.
NoObject ==
    [id |-> <<"none", 0>>, pattern |-> NoPattern, example_inputs |-> "none",
     ignore_literals |-> FALSE]

\* A mutant of the helper: a failure is caught and a matcher without a
\* pattern is returned in its place.
HelperSwallowsFailure(pattern, example_inputs, id, framework) ==
    IF framework \in Stages
    THEN [kind |-> "return", error |-> NoError,
          value |-> [NoObject EXCEPT !.id = id]]
    ELSE [kind |-> "return", error |-> NoError,
          value |-> [id |-> id, pattern |-> pattern,
                     example_inputs |-> example_inputs,
                     ignore_literals |-> TRUE]]
\* Lines 106-113. The four framework calls run in order with no handler
\* around them: the first that raises ends the helper with its error;
\* otherwise the new matcher, a new object named id, is returned.
_generate_pattern_matcher_helper(pattern, example_inputs, id, framework) ==
    IF framework \in Stages
    THEN [kind |-> "raise", error |-> framework, value |-> NoObject]
    ELSE [kind |-> "return", error |-> NoError,
          value |-> [id |-> id, pattern |-> pattern,
                     example_inputs |-> example_inputs,
                     ignore_literals |-> TRUE]]

Accessors ==
    {"conv2d", "conv2d_bn", "conv2d_relu", "conv2d_inplace_relu",
     "conv2d_hardtanh", "conv2d_inplace_hardtanh", "conv2d_relu6",
     "conv2d_inplace_relu6"}

\* functools.lru_cache keys an entry by the call's arguments: here none.
NoArgs == "()"

\* A mutant of CacheOf: one cache shared by all the accessors.
CacheOfShared(accessor) == "conv2d"
\* Each @functools.lru_cache(None) wraps its function with a cache of its own.
CacheOf(accessor) == accessor

\* A mutant of CacheStore: nothing is kept.
CacheStoreNothing(c, result) == c
\* A mutant of CacheStore: what a failed run left is kept too.
CacheStoreAlways(c, result) == DictSet(c, NoArgs, result.value)
\* lru_cache stores the wrapped function's return value; a call that raises
\* never reaches the store.
CacheStore(c, result) ==
    IF result.kind = "return" THEN DictSet(c, NoArgs, result.value) ELSE c

\* The body of each accessor: the arguments it passes to
\* _generate_pattern_matcher_helper. A function or module passed as conv_fn
\* or unary_fn is represented by its name.
AccessorBody(accessor) ==
    CASE accessor = "conv2d" ->
             [pattern |-> _get_conv_unary_pattern("conv2d", FALSE, "None"),
              example_inputs |-> "_conv2d_example_inputs"]
      [] accessor = "conv2d_bn" ->
             [pattern |-> _get_conv_unary_pattern("conv2d", TRUE, "None"),
              example_inputs |-> "_conv2d_bn_example_inputs"]
      [] accessor = "conv2d_relu" ->
             [pattern |-> _get_conv_unary_pattern("conv2d", FALSE, "relu"),
              example_inputs |-> "_conv2d_example_inputs"]
      [] accessor = "conv2d_inplace_relu" ->
             [pattern |-> _get_conv_unary_pattern("conv2d", FALSE, "relu_"),
              example_inputs |-> "_conv2d_example_inputs"]
      [] accessor = "conv2d_hardtanh" ->
             [pattern |-> _get_conv_unary_pattern("conv2d", FALSE, "hardtanh"),
              example_inputs |-> "_conv2d_example_inputs"]
      [] accessor = "conv2d_inplace_hardtanh" ->
             [pattern |-> _get_conv_unary_pattern("conv2d", FALSE, "hardtanh_"),
              example_inputs |-> "_conv2d_example_inputs"]
      [] accessor = "conv2d_relu6" ->
             [pattern |-> _get_conv_unary_pattern("conv2d", FALSE, "relu6"),
              example_inputs |-> "_conv2d_example_inputs"]
      [] accessor = "conv2d_inplace_relu6" ->
             [pattern |-> _get_conv_unary_pattern("conv2d", FALSE,
                                                  "ReLU6(inplace=True)"),
              example_inputs |-> "_conv2d_example_inputs"]

\* via: what was called, the accessor ("call") or a function on it.
NoOutcome ==
    [accessor |-> "none", kind |-> "none", value |-> NoObject,
     error |-> NoError, framework |-> NoError, ran |-> 0, via |-> "none"]

\* One call of a cached accessor. framework is what the external framework
\* does if the body runs.
CallAccessor(accessor, framework) ==
    LET slot == CacheOf(accessor)
    IN /\ ops < MaxOps
       /\ ops' = ops + 1
       /\ IF NoArgs \in DOMAIN cache[slot]
          THEN \* a hit: the body does not run
               /\ framework = NoError
               /\ outcome' = [accessor |-> accessor, kind |-> "return",
                              value |-> cache[slot][NoArgs], error |-> NoError,
                              framework |-> NoError, ran |-> 0,
                              via |-> "call"]
               /\ returned' = [returned EXCEPT ![accessor] =
                                  @ \cup {cache[slot][NoArgs]}]
               /\ cacheBefore' = cache
               /\ UNCHANGED <<cache, builds, fails>>
          ELSE \* a miss: the body runs once
               LET result == _generate_pattern_matcher_helper(
                                 AccessorBody(accessor).pattern,
                                 AccessorBody(accessor).example_inputs,
                                 <<accessor, builds[accessor] + 1>>, framework)
               IN /\ builds' = [builds EXCEPT ![accessor] = @ + 1]
                  /\ fails' = [fails EXCEPT ![accessor] =
                                  IF framework \in Stages THEN @ + 1 ELSE @]
                  /\ cache' = [cache EXCEPT ![slot] = CacheStore(@, result)]
                  /\ cacheBefore' = cache
                  /\ outcome' = [accessor |-> accessor, kind |-> result.kind,
                                 value |-> result.value, error |-> result.error,
                                 framework |-> framework, ran |-> 1,
                                 via |-> "call"]
                  /\ returned' = [returned EXCEPT ![accessor] =
                                     IF result.kind = "return"
                                     THEN @ \cup {result.value} ELSE @]

_generate_conv2d_pattern_matcher ==
    /\ \E framework \in FrameworkRuns :
           CallAccessor("conv2d", framework)
    /\ UNCHANGED <<annotVars, symVars>>

_generate_conv2d_bn_pattern_matcher ==
    /\ \E framework \in FrameworkRuns :
           CallAccessor("conv2d_bn", framework)
    /\ UNCHANGED <<annotVars, symVars>>

_generate_conv2d_relu_pattern_matcher ==
    /\ \E framework \in FrameworkRuns :
           CallAccessor("conv2d_relu", framework)
    /\ UNCHANGED <<annotVars, symVars>>

_generate_conv2d_inplace_relu_pattern_matcher ==
    /\ \E framework \in FrameworkRuns :
           CallAccessor("conv2d_inplace_relu", framework)
    /\ UNCHANGED <<annotVars, symVars>>

_generate_conv2d_hardtanh_pattern_matcher ==
    /\ \E framework \in FrameworkRuns :
           CallAccessor("conv2d_hardtanh", framework)
    /\ UNCHANGED <<annotVars, symVars>>

_generate_conv2d_inplace_hardtanh_pattern_matcher ==
    /\ \E framework \in FrameworkRuns :
           CallAccessor("conv2d_inplace_hardtanh", framework)
    /\ UNCHANGED <<annotVars, symVars>>

_generate_conv2d_relu6_pattern_matcher ==
    /\ \E framework \in FrameworkRuns :
           CallAccessor("conv2d_relu6", framework)
    /\ UNCHANGED <<annotVars, symVars>>

_generate_conv2d_inplace_relu6_pattern_matcher ==
    /\ \E framework \in FrameworkRuns :
           CallAccessor("conv2d_inplace_relu6", framework)
    /\ UNCHANGED <<annotVars, symVars>>

\* The module as imported: every cache empty, nothing built.
CacheInit ==
    /\ cache = [a \in Accessors |-> EmptyDict]
    /\ cacheBefore = cache
    /\ builds = [a \in Accessors |-> 0]
    /\ fails = [a \in Accessors |-> 0]
    /\ ops = 0
    /\ returned = [a \in Accessors |-> {}]
    /\ outcome = NoOutcome
    /\ AnnotIdle
    /\ SymIdle

CacheNext ==
    \/ _generate_conv2d_pattern_matcher
    \/ _generate_conv2d_bn_pattern_matcher
    \/ _generate_conv2d_relu_pattern_matcher
    \/ _generate_conv2d_inplace_relu_pattern_matcher
    \/ _generate_conv2d_hardtanh_pattern_matcher
    \/ _generate_conv2d_inplace_hardtanh_pattern_matcher
    \/ _generate_conv2d_relu6_pattern_matcher
    \/ _generate_conv2d_inplace_relu6_pattern_matcher

CacheSpec == CacheInit /\ [][CacheNext]_vars

\* ------------------------------------ the functions lru_cache adds
\* accessor.cache_clear(), which functools.lru_cache puts on every function
\* it wraps: the accessor's cache is emptied, nothing is built or returned.
\* No code of the module calls it.
cache_clear(accessor) ==
    /\ ops < MaxOps
    /\ ops' = ops + 1
    /\ cache' = [cache EXCEPT ![CacheOf(accessor)] = EmptyDict]
    /\ cacheBefore' = cache
    /\ outcome' = [accessor |-> accessor, kind |-> "none", value |-> NoObject,
                   error |-> NoError, framework |-> NoError, ran |-> 0,
                   via |-> "cache_clear"]
    /\ UNCHANGED <<builds, fails, returned, annotVars, symVars>>

\* accessor.__wrapped__(), the decorated function itself, which
\* functools.lru_cache leaves on every function it wraps: the body runs
\* whatever the cache holds, and the cache is neither read nor written. What
\* it returns is no return of the accessor. No code of the module calls it.
__wrapped__(accessor) ==
    /\ ops < MaxOps
    /\ ops' = ops + 1
    /\ \E framework \in FrameworkRuns :
           LET result == _generate_pattern_matcher_helper(
                             AccessorBody(accessor).pattern,
                             AccessorBody(accessor).example_inputs,
                             <<accessor, builds[accessor] + 1>>, framework)
           IN /\ builds' = [builds EXCEPT ![accessor] = @ + 1]
              /\ fails' = [fails EXCEPT ![accessor] =
                              IF framework \in Stages THEN @ + 1 ELSE @]
              /\ outcome' = [accessor |-> accessor, kind |-> result.kind,
                             value |-> result.value, error |-> result.error,
                             framework |-> framework, ran |-> 1,
                             via |-> "__wrapped__"]
    /\ cacheBefore' = cache
    /\ UNCHANGED <<cache, returned, annotVars, symVars>>

\* The accessors together with the functions lru_cache adds to them.
LruNext ==
    \/ CacheNext
    \/ \E accessor \in Accessors : cache_clear(accessor)
    \/ \E accessor \in Accessors : __wrapped__(accessor)

LruSpec == CacheInit /\ [][LruNext]_vars

\* ------------------------------------------- claims on the cached accessors
\* The claims speak of calls of the accessors, the operations of the module,
\* and are checked under CacheSpec. Under LruSpec a cache_clear() empties a
\* filled entry, after which the accessor builds and returns a second
\* object, and a __wrapped__() runs the construction past a filled cache.
Filled(c) == NoArgs \in DOMAIN c
\* The latest step was a call of an accessor.
Called == outcome.kind \in {"return", "raise"}
\* The runs of the construction for accessor a that completed.
Completed(a) == builds[a] - fails[a]

\* C4: in any sequence of calls, every call of an accessor that returns a
\* matcher returns the one object the accessor's first returning call
\* returned.
C4_SameObjectEveryCall ==
    /\ \A a \in Accessors : Cardinality(returned[a]) <= 1
    /\ outcome.kind = "return" => returned[outcome.accessor] = {outcome.value}

\* The fourth call of one accessor returned the object its first call
\* built, without running the body; no call of the accessor failed.
C4_Witness ==
    /\ outcome.kind = "return"
    /\ outcome.ran = 0
    /\ ops = 4
    /\ builds[outcome.accessor] = 1
    /\ \A b \in Accessors \ {outcome.accessor} : builds[b] = 0
    /\ returned[outcome.accessor] = {outcome.value}

\* C5: two different accessors never return the same object.
C5_DistinctAcrossAccessors ==
    \A a, b \in Accessors : a # b => returned[a] \cap returned[b] = {}

\* Two accessors have returned a matcher, the latest call being a repeated
\* one.
C5_Witness ==
    /\ outcome.kind = "return"
    /\ outcome.ran = 0
    /\ \E b \in Accessors \ {outcome.accessor} : returned[b] # {}

\* C6 as stated: the construction runs at most once per accessor, and no
\* operation empties a filled cache entry.
C6_AsStated ==
    /\ \A a \in Accessors : builds[a] <= 1
    /\ \A a \in Accessors : Filled(cacheBefore[a]) => Filled(cache[a])

\* C6 amended: the construction completes at most once per accessor (a run
\* that raised is followed by another run on the next call); the cache
\* entry is filled exactly from the run that completed; from then on every
\* call is a cache hit that runs no construction; and no operation empties
\* or replaces a filled cache entry.
C6_HitAfterFirstSuccess ==
    /\ \A a \in Accessors :
           /\ Completed(a) <= 1
           /\ Completed(a) = 1 <=> Filled(cache[a])
           /\ Filled(cacheBefore[a]) => cache[a] = cacheBefore[a]
    /\ (Called /\ Filled(cacheBefore[outcome.accessor])) =>
           /\ outcome.ran = 0
           /\ outcome.kind = "return"
           /\ cache = cacheBefore
           /\ outcome.value = cacheBefore[outcome.accessor][NoArgs]

\* A cache hit on an accessor whose construction ran twice: a run that
\* failed, then the one that filled the cache.
C6_Witness ==
    /\ outcome.kind = "return"
    /\ outcome.ran = 0
    /\ fails[outcome.accessor] = 1
    /\ builds[outcome.accessor] = 2

\* C7: when the framework raises during the construction, the accessor call
\* ends with that same error: nothing is returned in its place and the
\* construction is not run again within the call.
C7_FailurePropagates ==
    outcome.framework \in Stages =>
        /\ outcome.kind = "raise"
        /\ outcome.error = outcome.framework
        /\ outcome.value = NoObject
        /\ outcome.ran = 1

\* The matcher's constructor, the last of the four steps, raised.
C7_Witness ==
    /\ outcome.framework = "SubgraphMatcherWithNameNodeMap"
    /\ outcome.kind = "raise"

\* C10: a call whose construction fails stores nothing and leaves every
\* cache as it was; a call on an empty cache, also after a failure, runs
\* the construction; a call that succeeds leaves a complete matcher in the
\* accessor's cache and the other caches as they were; and the result of a
\* call that succeeded is the one cached for all later calls.
C10_FailureNotCached ==
    /\ outcome.kind = "raise" =>
           /\ cache = cacheBefore
           /\ ~Filled(cache[outcome.accessor])
    /\ (Called /\ ~Filled(cacheBefore[outcome.accessor])) => outcome.ran = 1
    /\ outcome.kind = "return" =>
           /\ Filled(cache[outcome.accessor])
           /\ cache[outcome.accessor][NoArgs] = outcome.value
           /\ outcome.value.ignore_literals
           /\ \A a \in Accessors \ {outcome.accessor} :
                  cache[a] = cacheBefore[a]
    /\ \A a \in Accessors :
           returned[a] # {} =>
               Filled(cache[a]) /\ returned[a] = {cache[a][NoArgs]}

\* A call that ran the construction and succeeded after an earlier call of
\* the same accessor had failed, another accessor's cache being filled.
C10_Witness ==
    /\ outcome.kind = "return"
    /\ outcome.ran = 1
    /\ fails[outcome.accessor] >= 1
    /\ cache[outcome.accessor][NoArgs] = outcome.value
    /\ \E b \in Accessors \ {outcome.accessor} : Filled(cache[b])

====
